---- MODULE Spec2Model ----
(***************************************************************************)
(* A model of src/main.py, the "Aging Pesagem" Streamlit dashboard:        *)
(*   - load_and_process_data: quantity / date coercion, row filter, aging  *)
(*     in days and aging category;                                         *)
(*   - the aggregations of the dashboard (aging_counts, aging_por_material)*)
(*   - format_br_estoque, the display formatter of quantities;             *)
(*   - the page script with st.session_state, st.cache_data and clear_data.*)
(*                                                                         *)
(* Text is a sequence of one-character strings.  A quantity is an integer  *)
(* number of thousandths (the display has 3 decimals).  A timestamp is a   *)
(* number of ticks, TicksPerDay ticks to the day, counted from the         *)
(* proleptic ordinal of the date (datetime.date.toordinal).                *)
(***************************************************************************)
EXTENDS Integers, Sequences, FiniteSets, TLC

VARIABLES
    \* ---- load_and_process_data run on one source -----------------------
    pipe_pc,        \* "start" | "done"
    pipe_src,       \* the source handed to load_and_process_data
    pipe_today,     \* what date.today() returns during the call
    pipe_out,       \* the value returned: [df, hoje, errors]
    \* ---- quantity coercion / format_br_estoque --------------------------
    q_pc,           \* "cell" | "coerced" | "formatted" | "recoerced"
    q_text,         \* the text at hand (a raw cell or a formatted value)
    q_val,          \* the number at hand (thousandths) or NaN
    q_orig,         \* the number that was formatted, before re-coercion
    \* ---- the aggregations of one page run -------------------------------
    agg_pc,         \* "start" | "counted" | "ranked"
    agg_df,         \* df, the processed rows the run renders
    selected_materials,
    top_n,
    aging_counts,
    aging_por_material,
    \* ---- the page script and its session --------------------------------
    today,          \* the calendar day (ordinal) of the server clock
    disk,           \* content of EXPECTED_FILE_NAME on disk, or NoFile
    cache,          \* st.cache_data of load_and_process_data: key -> result
    session_state,  \* st.session_state: no keys, or df_data/hoje_data/uploaded_file_name
    ui,             \* what the last script run put on the page
    last            \* the last step: "new" | "run" | "clear" | "run_after_clear"

vars == << pipe_pc, pipe_src, pipe_today, pipe_out,
           q_pc, q_text, q_val, q_orig,
           agg_pc, agg_df, selected_materials, top_n, aging_counts, aging_por_material,
           today, disk, cache, session_state, ui, last >>

pipeVars == << pipe_pc, pipe_src, pipe_today, pipe_out >>
qVars    == << q_pc, q_text, q_val, q_orig >>
aggVars  == << agg_pc, agg_df, selected_materials, top_n, aging_counts, aging_por_material >>
appVars  == << today, disk, cache, session_state, ui, last >>

(***************************************************************************)
(* Bounds of the model.                                                    *)
(***************************************************************************)
MaxRows     == 2    \* data rows of an input grid
TicksPerDay == 2    \* resolution of the time of day of a timestamp
MaxDays     == 2    \* days the server clock advances in the session model

(***************************************************************************)
(* pandas' missing values and Python's None.  A number is Num(n), n in     *)
(* thousandths, or NaN; a timestamp is Ts(t), t in ticks, or NaT.          *)
(***************************************************************************)
NaN    == [ isna |-> TRUE,  v |-> 0 ]
Num(n) == [ isna |-> FALSE, v |-> n ]
NaT    == [ isna |-> TRUE,  t |-> 0 ]
Ts(t)  == [ isna |-> FALSE, t |-> t ]
None   == "None"

\* pd.isna
IsNa(x) == x.isna

Range(s) == { s[i] : i \in DOMAIN s }

(***************************************************************************)
(* Text: str.replace, and the parse of pd.to_numeric.                      *)
(***************************************************************************)
Digits == { "0", "1", "2", "3", "4", "5", "6", "7", "8", "9" }

DigitVal(c) ==
    CASE c = "0" -> 0 [] c = "1" -> 1 [] c = "2" -> 2 [] c = "3" -> 3 [] c = "4" -> 4
      [] c = "5" -> 5 [] c = "6" -> 6 [] c = "7" -> 7 [] c = "8" -> 8 [] c = "9" -> 9

DigitChar(n) ==
    CASE n = 0 -> "0" [] n = 1 -> "1" [] n = 2 -> "2" [] n = 3 -> "3" [] n = 4 -> "4"
      [] n = 5 -> "5" [] n = 6 -> "6" [] n = 7 -> "7" [] n = 8 -> "8" [] n = 9 -> "9"

\* str.replace(old, new) for one-character old and new: every occurrence
StrReplace(s, old, new) == [ i \in DOMAIN s |-> IF s[i] = old THEN new ELSE s[i] ]

RECURSIVE DigitsValue(_)
DigitsValue(s) ==
    IF s = << >> THEN 0
    ELSE 10 * DigitsValue(SubSeq(s, 1, Len(s) - 1)) + DigitVal(s[Len(s)])

Pow10(n) == CASE n = 0 -> 1 [] n = 1 -> 10 [] n = 2 -> 100 [] n = 3 -> 1000

\* Positions of the decimal points of s
DotPositions(s) == { i \in DOMAIN s : s[i] = "." }

\* An unsigned decimal literal: digits with at most one '.', at least one
\* digit.  The model's numbers hold 3 decimals: the texts the model feeds
\* the parser have at most 3.
UnsignedValue(s) ==
    LET dots == DotPositions(s) IN
    IF s = << >> \/ Cardinality(dots) > 1 THEN NaN
    ELSE LET p     == IF dots = {} THEN Len(s) + 1 ELSE CHOOSE i \in dots : TRUE
             ipart == SubSeq(s, 1, p - 1)
             fpart == SubSeq(s, p + 1, Len(s))
         IN  IF /\ Range(ipart) \subseteq Digits
                /\ Range(fpart) \subseteq Digits
                /\ Len(ipart) + Len(fpart) > 0
                /\ Len(fpart) <= 3
             THEN Num(DigitsValue(ipart) * 1000 + DigitsValue(fpart) * Pow10(3 - Len(fpart)))
             ELSE NaN

\* pd.to_numeric(text, errors='coerce') of one cell: the number, or NaN
ToNumeric(s) ==
    IF s # << >> /\ Head(s) = "-"
    THEN LET u == UnsignedValue(Tail(s)) IN IF IsNa(u) THEN NaN ELSE Num(0 - u.v)
    ELSE UnsignedValue(s)

\* lines 58-60: astype(str).str.replace(',', '.') then pd.to_numeric(errors='coerce')
CoerceEstoque(cell) == ToNumeric(StrReplace(cell, ",", "."))

(***************************************************************************)
(* Dates.  A date cell is the text of a date in year-month-day order, held *)
(* as its fields (with a time of day in ticks), or some other text, or a   *)
(* missing cell.                                                           *)
(***************************************************************************)
IsLeap(y) == (y % 4 = 0 /\ y % 100 # 0) \/ y % 400 = 0

DaysInMonth(y, m) ==
    CASE m \in { 1, 3, 5, 7, 8, 10, 12 } -> 31
      [] m \in { 4, 6, 9, 11 }           -> 30
      [] m = 2                           -> IF IsLeap(y) THEN 29 ELSE 28

RECURSIVE DaysBeforeMonth(_, _)
DaysBeforeMonth(y, m) ==
    IF m = 1 THEN 0 ELSE DaysBeforeMonth(y, m - 1) + DaysInMonth(y, m - 1)

\* datetime.date(y, m, d).toordinal()
ToOrdinal(y, m, d) ==
    LET py == y - 1 IN
    365 * py + (py \div 4) - (py \div 100) + (py \div 400) + DaysBeforeMonth(y, m) + d

DateCell(y, m, d, tick) == [ kind |-> "date", y |-> y, m |-> m, d |-> d, tick |-> tick ]
TextCell                == [ kind |-> "text", y |-> 0, m |-> 0, d |-> 0, tick |-> 0 ]
EmptyCell               == [ kind |-> "nan",  y |-> 0, m |-> 0, d |-> 0, tick |-> 0 ]

\* line 67: pd.to_datetime(cell, errors='coerce', dayfirst=False), one cell
ToDatetime(c) ==
    IF /\ c.kind = "date"
       /\ c.m \in 1..12
       /\ c.d \in 1..DaysInMonth(c.y, c.m)
       /\ c.tick \in 0..(TicksPerDay - 1)
    THEN Ts(ToOrdinal(c.y, c.m, c.d) * TicksPerDay + c.tick)
    ELSE NaT

\* pd.to_datetime(hoje): midnight of the day
DayStart(day) == day * TicksPerDay

\* a variant that clamps the aging of a future movement to 0
DiasEmEstoqueClamped(hoje, t) ==
    IF DayStart(hoje) < t THEN 0 ELSE (DayStart(hoje) - t) \div TicksPerDay

\* line 75: (pd.to_datetime(hoje) - ts).dt.days, the floor of the difference in days
DiasEmEstoque(hoje, t) == (DayStart(hoje) - t) \div TicksPerDay

\* a variant with the first boundary off by one
categorizar_aging_le(dias) ==
    IF dias <= 10 THEN "Normal"
    ELSE IF 10 <= dias /\ dias < 20 THEN "Alerta"
    ELSE "Critico"

\* lines 81-87 ("Critico" stands for the label 'Crítico')
categorizar_aging(dias) ==
    IF dias < 10 THEN "Normal"
    ELSE IF 10 <= dias /\ dias < 20 THEN "Alerta"
    ELSE "Critico"

\* line 92
color_map(cat) ==
    CASE cat = "Normal" -> "green" [] cat = "Alerta" -> "orange" [] cat = "Critico" -> "red"

(***************************************************************************)
(* load_and_process_data.  A source has a header of ncols columns and data *)
(* rows; a frame has a number of columns and rows.                         *)
(***************************************************************************)
NumColumns == 8     \* the 8 names assigned to df.columns
NumDerived == 3     \* Dias_Em_Estoque, Categoria_Aging, Cor_Categoria

\* pd.DataFrame()
EmptyFrame == [ ncols |-> 0, rows |-> << >> ]

\* DataFrame.empty: some axis has length 0
IsEmpty(df) == df.ncols = 0 \/ Len(df.rows) = 0

\* the rows as read, labelled with the index pandas gives them (0, 1, ...)
ReadRows(src) ==
    [ i \in DOMAIN src.rows |->
        [ idx                |-> i - 1,
          Material           |-> src.rows[i].Material,
          Descricao_Material |-> src.rows[i].Descricao_Material,
          Lote               |-> src.rows[i].Lote,
          Estoque_Cell       |-> src.rows[i].Estoque_Disponivel,
          Ultimo_Cell        |-> src.rows[i].Ultimo_Movimento ] ]

\* lines 58-62: coerce the quantity, drop the rows where it is NaN
EstoqueKept(r) == ~IsNa(CoerceEstoque(r.Estoque_Cell))

\* a variant that keeps the rows whose date is NaT
MovimentoKeptAlways(r) == TRUE

\* lines 67-70: coerce the date, drop the rows where it is NaT
MovimentoKept(r) == ~IsNa(ToDatetime(r.Ultimo_Cell))

\* lines 72-93: the derived columns of one surviving row
ProcessRow(r, hoje) ==
    LET t    == ToDatetime(r.Ultimo_Cell).t
        dias == DiasEmEstoque(hoje, t)
    IN  [ idx                |-> r.idx,
          Material           |-> r.Material,
          Descricao_Material |-> r.Descricao_Material,
          Lote               |-> r.Lote,
          Estoque_Disponivel |-> CoerceEstoque(r.Estoque_Cell).v,
          Ultimo_Movimento   |-> t,
          Dias_Em_Estoque    |-> dias,
          Categoria_Aging    |-> categorizar_aging(dias),
          Cor_Categoria      |-> color_map(categorizar_aging(dias)) ]

\* lines 26-100; now is what date.today() returns during the call.
\* A source that cannot be read as a table, or whose header has not
\* NumColumns columns (line 51 raises), takes the except branch.
load_and_process_data(src, now) ==
    IF ~src.readable \/ src.ncols # NumColumns
    THEN [ df |-> EmptyFrame, hoje |-> now, errors |-> 2 ]
    ELSE LET read     == ReadRows(src)
             numeric  == SelectSeq(read, EstoqueKept)
             dated    == SelectSeq(numeric, MovimentoKept)
             hoje     == now
         IN  [ df     |-> [ ncols |-> NumColumns + NumDerived,
                            rows  |-> [ i \in DOMAIN dated |-> ProcessRow(dated[i], hoje) ] ],
               hoje   |-> hoje,
               errors |-> 0 ]

(***************************************************************************)
(* format_br_estoque (lines 327-339).                                      *)
(***************************************************************************)
\* the decimal digits of n >= 0
RECURSIVE IntDigits(_)
IntDigits(n) ==
    IF n < 10 THEN << DigitChar(n) >>
    ELSE IntDigits(n \div 10) \o << DigitChar(n % 10) >>

\* the ',' option of the format: a comma before every group of 3 digits
RECURSIVE GroupThousands(_)
GroupThousands(digs) ==
    IF Len(digs) <= 3 THEN digs
    ELSE GroupThousands(SubSeq(digs, 1, Len(digs) - 3))
         \o << "," >> \o SubSeq(digs, Len(digs) - 2, Len(digs))

\* the 3 decimals of the '.3f' format
Frac3(n) == << DigitChar(n \div 100), DigitChar((n \div 10) % 10), DigitChar(n % 10) >>

\* line 332: f"{val:,.3f}" of a number of thousandths
UsFormat(v) ==
    LET a == IF v < 0 THEN 0 - v ELSE v IN
    (IF v < 0 THEN << "-" >> ELSE << >>)
    \o GroupThousands(IntDigits(a \div 1000)) \o << "." >> \o Frac3(a % 1000)

\* lines 327-339
format_br_estoque(val) ==
    IF IsNa(val) THEN << >>
    ELSE LET us_format == UsFormat(val.v)
             step1     == StrReplace(us_format, ",", "X")
             step2     == StrReplace(step1, ".", ",")
         IN  StrReplace(step2, "X", ".")

(***************************************************************************)
(* The parts of the state a specification does not use stay at rest.       *)
(***************************************************************************)
PipeAtRest ==
    /\ pipe_pc = "rest" /\ pipe_src = << >> /\ pipe_today = 0 /\ pipe_out = << >>

QAtRest ==
    /\ q_pc = "rest" /\ q_text = << >> /\ q_val = NaN /\ q_orig = NaN

AggAtRest ==
    /\ agg_pc = "rest" /\ agg_df = << >> /\ selected_materials = {} /\ top_n = 0
    /\ aging_counts = << >> /\ aging_por_material = << >>

AppAtRest ==
    /\ today = 0 /\ disk = << >> /\ cache = << >> /\ session_state = << >>
    /\ ui = << >> /\ last = "rest"

(***************************************************************************)
(* SpecPipeline: one call of load_and_process_data on any source of at     *)
(* most MaxRows data rows.                                                 *)
(***************************************************************************)
Chars(str) ==
    CASE str = "12,5"      -> << "1", "2", ",", "5" >>
      [] str = "7"         -> << "7" >>
      [] str = "abc"       -> << "a", "b", "c" >>
      [] str = "nan"       -> << "n", "a", "n" >>
      [] str = "1.234,500" -> << "1", ".", "2", "3", "4", ",", "5", "0", "0" >>
      [] str = "1234.5"    -> << "1", "2", "3", "4", ".", "5" >>
      [] str = "-3,25"     -> << "-", "3", ",", "2", "5" >>
      [] str = "0,125"     -> << "0", ",", "1", "2", "5" >>
      [] str = ""          -> << >>

\* Quantity cells: a decimal comma, an integer, text that is no number
PipeQtyCells == { Chars("12,5"), Chars("7"), Chars("abc") }

\* Movement cells around the two days the call may run on: 19/29, 10/20 and
\* 9/19 days before, the first day itself at a later time of day, a day
\* after both, a date that does not exist, other text, a missing cell.
PipeDateCells ==
    { DateCell(2025, 2, 1, 0), DateCell(2025, 2, 10, 0), DateCell(2025, 2, 11, 0),
      DateCell(2025, 2, 20, 1), DateCell(2025, 3, 5, 0),
      DateCell(2025, 31, 31, 0), TextCell, EmptyCell }

PipeDays == { ToOrdinal(2025, 2, 20), ToOrdinal(2025, 3, 2) }

PipeRawRows ==
    [ Material : { "M1" }, Descricao_Material : { "D1" }, Lote : { "L1" },
      Estoque_Disponivel : PipeQtyCells, Ultimo_Movimento : PipeDateCells ]

SeqsUpTo(S, n) == UNION { [ 1..k -> S ] : k \in 0..n }

\* any rows under a header of NumColumns columns; a header one column
\* short; a file that cannot be read
PipeSources(maxRows) ==
    [ readable : { TRUE }, ncols : { NumColumns }, rows : SeqsUpTo(PipeRawRows, maxRows) ]
    \cup [ readable : { TRUE }, ncols : { NumColumns - 1 }, rows : SeqsUpTo(PipeRawRows, 1) ]
    \cup [ readable : { FALSE }, ncols : { 0 }, rows : { << >> } ]

InitPipeline ==
    /\ pipe_pc = "start"
    /\ pipe_src \in PipeSources(MaxRows)
    /\ pipe_today \in PipeDays
    /\ pipe_out = << >>
    /\ QAtRest /\ AggAtRest /\ AppAtRest

Ingest ==
    /\ pipe_pc = "start"
    /\ pipe_out' = load_and_process_data(pipe_src, pipe_today)
    /\ pipe_pc' = "done"
    /\ UNCHANGED << pipe_src, pipe_today, qVars, aggVars, appVars >>

NextPipeline == Ingest

SpecPipeline == InitPipeline /\ [][NextPipeline]_vars

(***************************************************************************)
(* Claims about load_and_process_data, checked under SpecPipeline.         *)
(***************************************************************************)
TierProbe == 40     \* the tiers are probed on -TierProbe..TierProbe

PipeDone == pipe_pc = "done" /\ pipe_src.readable /\ pipe_src.ncols = NumColumns

OutRows == pipe_out.df.rows

\* the tier the specification gives to an aging of d days
TierOf(d) ==
    CASE d <= 9       -> "Normal"
      [] d \in 10..19 -> "Alerta"
      [] d >= 20      -> "Critico"

\* C1: the tier is a total function of days_in_stock alone: below 10 Normal,
\* 10 to 19 Alert, 20 and more Critical (9 -> Normal, 10 -> Alert,
\* 19 -> Alert, 20 -> Critical), and every row of the output of
\* load_and_process_data carries the tier of its own days_in_stock.
C1_TierOfDays ==
    /\ \A d \in (0 - TierProbe)..TierProbe :
          /\ categorizar_aging(d) \in { "Normal", "Alerta", "Critico" }
          /\ categorizar_aging(d) = TierOf(d)
    /\ categorizar_aging(9) = "Normal" /\ categorizar_aging(10) = "Alerta"
    /\ categorizar_aging(19) = "Alerta" /\ categorizar_aging(20) = "Critico"
    /\ PipeDone =>
          \A j \in DOMAIN OutRows :
              OutRows[j].Categoria_Aging = TierOf(OutRows[j].Dias_Em_Estoque)

\* an output with a row of 19 days (Alert) and a row of 20 days (Critical)
C1_Witness ==
    /\ PipeDone
    /\ \E j, k \in DOMAIN OutRows :
          /\ OutRows[j].Dias_Em_Estoque = 19 /\ OutRows[j].Categoria_Aging = "Alerta"
          /\ OutRows[k].Dias_Em_Estoque = 20 /\ OutRows[k].Categoria_Aging = "Critico"

\* a row of the input whose quantity and date both coerce
SurvivesCoercion(raw) ==
    /\ ~IsNa(CoerceEstoque(raw.Estoque_Disponivel))
    /\ ~IsNa(ToDatetime(raw.Ultimo_Movimento))

\* the number of rows the source made of row i alone yields
AloneYields(i) ==
    Len(load_and_process_data([ pipe_src EXCEPT !.rows = << pipe_src.rows[i] >> ],
                              pipe_today).df.rows)

QtyIntParts  == { 0, 7, 12, 999, 1000, 1234, 12345, 1234567 }
QtyFracParts == { 0, 5, 125, 500, 999 }

QtyValues ==
    { sg * (i * 1000 + f) : sg \in { 1, 0 - 1 }, i \in QtyIntParts, f \in QtyFracParts }

\* a number written with a decimal comma and no thousands separator
PlainText(v) ==
    LET a == IF v < 0 THEN 0 - v ELSE v IN
    (IF v < 0 THEN << "-" >> ELSE << >>)
    \o IntDigits(a \div 1000) \o << "," >> \o Frac3(a % 1000)

\* Cells: numbers written plainly, numbers written the way the dashboard
\* displays them (thousands '.', decimal ','), and other texts
QtyCells ==
    { PlainText(v) : v \in QtyValues }
    \cup { format_br_estoque(Num(v)) : v \in QtyValues }
    \cup { Chars("1.234,500"), Chars("1234.5"), Chars("12,5"), Chars("7"),
           Chars("abc"), Chars("nan"), Chars("") }

InitQuantity ==
    /\ q_pc = "cell"
    /\ q_text \in QtyCells
    /\ q_val = NaN
    /\ q_orig = NaN
    /\ PipeAtRest /\ AggAtRest /\ AppAtRest

\* lines 58-62: the cell is coerced; a NaN marks the row for removal
CoerceCell ==
    /\ q_pc = "cell"
    /\ q_val' = CoerceEstoque(q_text)
    /\ q_pc' = "coerced"
    /\ UNCHANGED << q_text, q_orig, pipeVars, aggVars, appVars >>

\* line 347: the kept quantity is formatted for the table
FormatValue ==
    /\ q_pc = "coerced"
    /\ ~IsNa(q_val)
    /\ q_text' = format_br_estoque(q_val)
    /\ q_orig' = q_val
    /\ q_pc' = "formatted"
    /\ UNCHANGED << q_val, pipeVars, aggVars, appVars >>

\* the displayed text as a quantity cell: it is coerced as any cell is
CoerceDisplayed ==
    /\ q_pc = "formatted"
    /\ q_val' = CoerceEstoque(q_text)
    /\ q_pc' = "recoerced"
    /\ UNCHANGED << q_text, q_orig, pipeVars, aggVars, appVars >>

NextQuantity == CoerceCell \/ FormatValue \/ CoerceDisplayed

SpecQuantity == InitQuantity /\ [][NextQuantity]_vars

\* C5: the cell "1.234,500" is coerced to 1234.5 (the row is kept),
\* format_br_estoque of 1234.5 is "1.234,500", and for every value of at
\* most 3 decimals coercing its formatted text gives the value back.
C5_CoerceFormatRoundTrip ==
    /\ (q_pc = "coerced" /\ q_text = Chars("1.234,500")) => q_val = Num(1234500)
    /\ (q_pc = "formatted" /\ q_orig = Num(1234500)) => q_text = Chars("1.234,500")
    /\ q_pc = "recoerced" => q_val = q_orig

\* what holds of the code: the formatter writes 1234.5 as "1.234,500", and
\* the round trip gives the value back exactly below one thousand
C5_RoundTripBelowThousand ==
    /\ (q_pc = "formatted" /\ q_orig = Num(1234500)) => q_text = Chars("1.234,500")
    /\ q_pc = "recoerced" =>
          IF q_orig.v < 1000000 /\ q_orig.v > 0 - 1000000
          THEN q_val = q_orig
          ELSE IsNa(q_val)

(***************************************************************************)
(* The aggregations of the dashboard (lines 205-276).                      *)
(***************************************************************************)
\* a Material cell that is missing (NaN in a column read as text)
NoMaterial == "nan"

\* lines 215-218: the optional filter by description
FilterByDescription(df, selected) ==
    IF selected # {}
    THEN SelectSeq(df, LAMBDA r : r.Descricao_Material \in selected)
    ELSE df

\* a variant that counts the rows (lots) of the group
CountRowsOf(rows) == Len(rows)

\* Series.nunique() of the Material column: distinct values, NaN left out
NUniqueMaterial(rows) ==
    Cardinality({ rows[i].Material : i \in DOMAIN rows } \ { NoMaterial })

\* line 237
category_order == << "Normal", "Alerta", "Critico" >>

\* the order groupby gives its keys: sorted as text ('Alerta' < 'Crítico' < 'Normal')
GroupKeyOrder == << "Alerta", "Critico", "Normal" >>

\* lines 232-234: one row per category present, with its nunique of Material
GroupByCategoria(df) ==
    LET present == SelectSeq(GroupKeyOrder,
                             LAMBDA c : \E i \in DOMAIN df : df[i].Categoria_Aging = c)
    IN  [ k \in DOMAIN present |->
            [ Categoria_Aging    |-> present[k],
              Contagem_Materiais |->
                  NUniqueMaterial(SelectSeq(df, LAMBDA r : r.Categoria_Aging = present[k])) ] ]

\* lines 239-241: a row with count 0 is appended for each category that is absent
RECURSIVE FillMissing(_, _)
FillMissing(counts, cats) ==
    IF cats = << >> THEN counts
    ELSE IF \E i \in DOMAIN counts : counts[i].Categoria_Aging = Head(cats)
         THEN FillMissing(counts, Tail(cats))
         ELSE FillMissing(Append(counts, [ Categoria_Aging    |-> Head(cats),
                                            Contagem_Materiais |-> 0 ]),
                          Tail(cats))

\* lines 243-248: sort_values on the ordered categorical
SortByCategory(counts) ==
    LET pos(c) == CHOOSE k \in DOMAIN category_order : category_order[k] = c
        rank(i) == Cardinality({ j \in DOMAIN counts :
                        \/ pos(counts[j].Categoria_Aging) < pos(counts[i].Categoria_Aging)
                        \/ /\ pos(counts[j].Categoria_Aging) = pos(counts[i].Categoria_Aging)
                           /\ j <= i })
    IN  [ k \in DOMAIN counts |-> counts[CHOOSE i \in DOMAIN counts : rank(i) = k] ]

\* lines 231-248: aging_counts of the filtered rows
AgingCounts(df_filtered) ==
    SortByCategory(FillMissing(GroupByCategoria(df_filtered), category_order))

\* line 253: the rows the pie chart shows
AgingCountsDisplay(counts) == SelectSeq(counts, LAMBDA c : c.Contagem_Materiais > 0)

(***************************************************************************)
(* SpecCounts: aging_counts of any non-empty frame of at most MaxAggRows   *)
(* rows under any selection of the descriptions it holds.                  *)
(***************************************************************************)
MaxAggRows == 3

\* (material, description) of a row: M1 under two descriptions, M2 sharing
\* one of them, and a row with no material
AggKeys == { << "M1", "D1" >>, << "M1", "D2" >>, << "M2", "D2" >>, << NoMaterial, "D1" >> }
AggDias == { 5, 15, 25 }

\* a processed row: every row is a lot of its own, its category that of its days
AggRow(m, d, dias, lote) ==
    [ Material |-> m, Descricao_Material |-> d, Lote |-> lote, Estoque_Disponivel |-> 1000,
      Dias_Em_Estoque |-> dias, Categoria_Aging |-> categorizar_aging(dias) ]

\* the frame of the rows picked by f, each a (key, days) pair
CountFrame(f) == [ i \in DOMAIN f |-> AggRow(f[i][1][1], f[i][1][2], f[i][2], i) ]

InitCounts ==
    /\ agg_pc = "start"
    /\ \E k \in 1..MaxAggRows :
          \E f \in [ 1..k -> AggKeys \X AggDias ] : agg_df = CountFrame(f)
    /\ selected_materials \in SUBSET { agg_df[i].Descricao_Material : i \in DOMAIN agg_df }
    /\ top_n = 0
    /\ aging_counts = << >>
    /\ aging_por_material = << >>
    /\ PipeAtRest /\ QAtRest /\ AppAtRest

CountTiers ==
    /\ agg_pc = "start"
    /\ aging_counts' = AgingCounts(FilterByDescription(agg_df, selected_materials))
    /\ agg_pc' = "counted"
    /\ UNCHANGED << agg_df, selected_materials, top_n, aging_por_material,
                    pipeVars, qVars, appVars >>

NextCounts == CountTiers

SpecCounts == InitCounts /\ [][NextCounts]_vars

DfFiltered == FilterByDescription(agg_df, selected_materials)

\* the material ids with at least one filtered row in tier c
MaterialsInTier(c) ==
    { DfFiltered[i].Material : i \in { j \in DOMAIN DfFiltered :
                                          DfFiltered[j].Categoria_Aging = c } } \ { NoMaterial }

AllMaterials == MaterialsInTier("Normal") \cup MaterialsInTier("Alerta") \cup MaterialsInTier("Critico")

SpansTiers(m) ==
    Cardinality({ c \in Range(category_order) : m \in MaterialsInTier(c) }) > 1

CountOf(c) ==
    LET i == CHOOSE j \in DOMAIN aging_counts : aging_counts[j].Categoria_Aging = c
    IN  aging_counts[i].Contagem_Materiais

\* C3: aging_counts has exactly the keys Normal, Alert, Critical, each with
\* the number of distinct material ids that have a row in that tier (0 when
\* none); the counts sum to at least the number of distinct materials, with
\* equality exactly when no material spans tiers.
C3_DistinctMaterialsPerTier ==
    agg_pc = "counted" =>
        /\ Len(aging_counts) = 3
        /\ \A k \in 1..3 : aging_counts[k].Categoria_Aging = category_order[k]
        /\ \A c \in Range(category_order) : CountOf(c) = Cardinality(MaterialsInTier(c))
        /\ LET total == CountOf("Normal") + CountOf("Alerta") + CountOf("Critico") IN
           /\ total >= Cardinality(AllMaterials)
           /\ (total = Cardinality(AllMaterials)) <=> (\A m \in AllMaterials : ~SpansTiers(m))

\* M1 with two lots in Normal and one in Critical, no row in Alert
C3_Witness ==
    /\ agg_pc = "counted"
    /\ Len(DfFiltered) = 3
    /\ \A i \in 1..3 : DfFiltered[i].Material = "M1"
    /\ CountOf("Normal") = 1 /\ CountOf("Alerta") = 0 /\ CountOf("Critico") = 1
    /\ Cardinality({ i \in 1..3 : DfFiltered[i].Categoria_Aging = "Normal" }) = 2

(***************************************************************************)
(* aging_por_material (lines 269-276).                                     *)
(***************************************************************************)
TopNMin == 5        \* the slider's min_value
TopNMax == 20       \* the slider's max_value

\* the (Material, Descricao_Material) keys of the model, in the order
\* groupby sorts them
SortedKeys ==
    << << "M1", "D1" >>, << "M1", "D2" >>, << "M2", "D1" >>,
       << "M2", "D2" >>, << "M3", "D1" >>, << "M3", "D2" >> >>

RECURSIVE SumDias(_)
SumDias(rows) ==
    IF rows = << >> THEN 0 ELSE Head(rows).Dias_Em_Estoque + SumDias(Tail(rows))

RECURSIVE SumEstoque(_)
SumEstoque(rows) ==
    IF rows = << >> THEN 0 ELSE Head(rows).Estoque_Disponivel + SumEstoque(Tail(rows))

\* lines 272-276 up to reset_index: one row per key present, in key order;
\* the mean is held as its sum and its count
GroupByMaterial(df) ==
    LET present == SelectSeq(SortedKeys,
                     LAMBDA k : \E i \in DOMAIN df :
                         df[i].Material = k[1] /\ df[i].Descricao_Material = k[2])
    IN  [ g \in DOMAIN present |->
            LET rows == SelectSeq(df, LAMBDA r : /\ r.Material = present[g][1]
                                                 /\ r.Descricao_Material = present[g][2])
            IN  [ Material           |-> present[g][1],
                  Descricao_Material |-> present[g][2],
                  Aging_Sum          |-> SumDias(rows),
                  Aging_N            |-> Len(rows),
                  Total_Lotes        |-> Cardinality({ rows[i].Lote : i \in DOMAIN rows }),
                  Estoque_Total      |-> SumEstoque(rows) ] ]

\* Aging_Medio of a is greater than (or equal to) that of b
MeanGreater(a, b) == a.Aging_Sum * b.Aging_N > b.Aging_Sum * a.Aging_N
MeanEqual(a, b)   == a.Aging_Sum * b.Aging_N = b.Aging_Sum * a.Aging_N

\* sort_values('Aging_Medio', ascending=False) with the default
\* kind='quicksort', which is not a stable sort: every order of the rows
\* with the means descending is an outcome, whatever the order of equal means
RECURSIVE DescendingOrders(_, _)
DescendingOrders(groups, left) ==
    IF left = {} THEN { << >> }
    ELSE UNION { { << groups[g] >> \o rest : rest \in DescendingOrders(groups, left \ { g }) } :
                 g \in { h \in left : \A o \in left : ~MeanGreater(groups[o], groups[h]) } }

\* DataFrame.head(n)
HeadRows(rows, n) == SubSeq(rows, 1, IF Len(rows) < n THEN Len(rows) ELSE n)

(***************************************************************************)
(* SpecRollup: aging_por_material of any frame in which each key has no    *)
(* lot, a lot of 5 days, a lot of 30 days, or both, for the first          *)
(* TopNSpan + 1 positions of the slider.                                   *)
(***************************************************************************)
TopNSpan == 1

RollupLots == { << >>, << 5 >>, << 30 >>, << 5, 30 >> }

RECURSIVE RollupFrame(_, _)
RollupFrame(lots, k) ==
    IF k > Len(SortedKeys) THEN << >>
    ELSE [ i \in DOMAIN lots[k] |->
             AggRow(SortedKeys[k][1], SortedKeys[k][2], lots[k][i], << k, i >>) ]
         \o RollupFrame(lots, k + 1)

InitRollup ==
    /\ agg_pc = "start"
    /\ \E lots \in [ DOMAIN SortedKeys -> RollupLots ] :
          /\ agg_df = RollupFrame(lots, 1)
          /\ agg_df # << >>
    /\ selected_materials = {}
    /\ top_n \in { n \in TopNMin..TopNMax : n <= TopNMin + TopNSpan }
    /\ aging_counts = << >>
    /\ aging_por_material = << >>
    /\ PipeAtRest /\ QAtRest /\ AppAtRest

RankMaterials ==
    /\ agg_pc = "start"
    /\ LET groups == GroupByMaterial(FilterByDescription(agg_df, selected_materials)) IN
       \E sorted \in DescendingOrders(groups, DOMAIN groups) :
           aging_por_material' = HeadRows(sorted, top_n)
    /\ agg_pc' = "ranked"
    /\ UNCHANGED << agg_df, selected_materials, top_n, aging_counts,
                    pipeVars, qVars, appVars >>

NextRollup == RankMaterials

SpecRollup == InitRollup /\ [][NextRollup]_vars

RollupGroups == GroupByMaterial(FilterByDescription(agg_df, selected_materials))

\* the place of a rollup row in the group order
GroupPos(r) ==
    CHOOSE g \in DOMAIN RollupGroups :
        /\ RollupGroups[g].Material = r.Material
        /\ RollupGroups[g].Descricao_Material = r.Descricao_Material

\* at most N rows, the groups of the highest means, means descending
TopNByMean ==
    /\ Len(aging_por_material) = (IF Len(RollupGroups) < top_n THEN Len(RollupGroups) ELSE top_n)
    /\ Range(aging_por_material) \subseteq Range(RollupGroups)
    /\ \A i, j \in DOMAIN aging_por_material :
          i < j => /\ aging_por_material[i] # aging_por_material[j]
                   /\ ~MeanGreater(aging_por_material[j], aging_por_material[i])
    /\ \A g \in DOMAIN RollupGroups :
          RollupGroups[g] \notin Range(aging_por_material) =>
              \A i \in DOMAIN aging_por_material :
                  ~MeanGreater(RollupGroups[g], aging_por_material[i])

\* equal means keep their group order, in the output and at the cut
StableTies ==
    /\ \A i, j \in DOMAIN aging_por_material :
          (i < j /\ MeanEqual(aging_por_material[i], aging_por_material[j])) =>
              GroupPos(aging_por_material[i]) < GroupPos(aging_por_material[j])
    /\ \A g \in DOMAIN RollupGroups :
          RollupGroups[g] \notin Range(aging_por_material) =>
              \A i \in DOMAIN aging_por_material :
                  MeanEqual(RollupGroups[g], aging_por_material[i]) =>
                      GroupPos(aging_por_material[i]) < g

\* C4: aging_por_material groups the rows by (material id, description) and
\* returns at most N groups, those of the highest mean days_in_stock, by
\* mean descending; groups of equal mean keep their group order, in the
\* output and in which of them the top-N cut leaves out.
C4_TopNStableTies ==
    agg_pc = "ranked" => TopNByMean /\ StableTies

\* what holds of the code: the top N by mean, descending, ties in any order
C4_TopNAnyTieOrder ==
    agg_pc = "ranked" => TopNByMean

(***************************************************************************)
(* The page script (lines 15-22 and 110-172) with its session, the cache   *)
(* of load_and_process_data and the clock.                                 *)
(***************************************************************************)
EXPECTED_FILE_NAME == "EXPORT_20250211_144147.xlsx"
UPLOAD_NAME        == "upload.csv"
NoFile             == "no file"

RawRow(m, qty, date) ==
    [ Material |-> m, Descricao_Material |-> "D1", Lote |-> "L1",
      Estoque_Disponivel |-> qty, Ultimo_Movimento |-> date ]

\* The files of the model: two exports with valid rows, a well-formed export
\* whose rows are all rejected, and a file whose header has too few columns.
FileContent(id) ==
    CASE id = "exportA"   ->
           [ readable |-> TRUE, ncols |-> NumColumns,
             rows |-> << RawRow("M1", Chars("12,5"), DateCell(2025, 2, 10, 0)),
                         RawRow("M1", Chars("abc"), DateCell(2025, 2, 1, 0)) >> ]
      [] id = "exportB"   ->
           [ readable |-> TRUE, ncols |-> NumColumns,
             rows |-> << RawRow("M2", Chars("7"), DateCell(2025, 2, 1, 0)) >> ]
      [] id = "rejected"  ->
           [ readable |-> TRUE, ncols |-> NumColumns,
             rows |-> << RawRow("M1", Chars("abc"), DateCell(2025, 2, 10, 0)),
                         RawRow("M2", Chars("7"), DateCell(2025, 31, 31, 0)) >> ]
      [] id = "malformed" ->
           [ readable |-> TRUE, ncols |-> NumColumns - 1, rows |-> << >> ]

DiskFiles   == { "exportA", "rejected", "malformed" }
UploadFiles == { "exportB", "rejected", "malformed" }

FirstDay == ToOrdinal(2025, 2, 20)
Days     == FirstDay..(FirstDay + MaxDays)

\* st.cache_data keys the call on its argument: the path (a str, whatever
\* the file holds) or the uploaded file (its name and bytes)
CacheKeys == { EXPECTED_FILE_NAME } \cup UploadFiles

NoEntry == [ hit |-> FALSE, value |-> [ df |-> EmptyFrame, hoje |-> 0, errors |-> 0 ] ]

\* line 25: the cached value when there is one, else the call (then cached)
CachedLoad(c, key, id, now) ==
    IF c[key].hit THEN c[key].value ELSE load_and_process_data(FileContent(id), now)

CacheAfter(c, key, id, now) ==
    [ c EXCEPT ![key] = [ hit |-> TRUE, value |-> CachedLoad(c, key, id, now) ] ]

\* st.session_state before lines 17-22 have run in the session
NoSession ==
    [ init |-> FALSE, df_data |-> EmptyFrame, hoje_data |-> 0, uploaded_file_name |-> None ]

\* lines 17-22 (and clear_data, lines 105-107)
FreshSession(now) ==
    [ init |-> TRUE, df_data |-> EmptyFrame, hoje_data |-> now, uploaded_file_name |-> None ]

\* lines 129-131 and 155-157
Stored(res, name) ==
    [ init |-> TRUE, df_data |-> res.df, hoje_data |-> res.hoje, uploaded_file_name |-> name ]

BlankPage ==
    [ header |-> 0, messages |-> {}, errors |-> 0, uploader |-> FALSE, button |-> FALSE,
      upload |-> NoFile, rerun |-> FALSE, dashboard |-> FALSE, rendered |-> << >> ]

\* a variant that stores whatever the upload returned
UploadFailedNever(res) == FALSE

\* line 151
UploadFailed(res) == IsEmpty(res.df)

\* One run of the script; u is the file in the uploader (NoFile: none).
PageRun(u) ==
    LET ss0    == IF session_state.init THEN session_state ELSE FreshSession(today)   \* 17-22
        empty0 == IsEmpty(ss0.df_data)                                                \* 124
        auto   == empty0 /\ disk # NoFile                                             \* 126
    IN
    \* line 127
    \E res1 \in { IF auto THEN CachedLoad(cache, EXPECTED_FILE_NAME, disk, today)
                  ELSE NoEntry.value } :
    LET cache1   == IF auto THEN CacheAfter(cache, EXPECTED_FILE_NAME, disk, today) ELSE cache
        \* lines 128-140
        loaded   == auto /\ ~IsEmpty(res1.df)
        ss1      == IF loaded THEN Stored(res1, EXPECTED_FILE_NAME) ELSE ss0
        df       == IF auto THEN res1.df ELSE ss0.df_data
        \* lines 143-148
        uploader == empty0 /\ IsEmpty(ss1.df_data)
        given    == uploader /\ u # NoFile
    IN
    \* line 150
    \E res2 \in { IF given THEN CachedLoad(cache1, u, u, today) ELSE NoEntry.value } :
    LET cache2   == IF given THEN CacheAfter(cache1, u, u, today) ELSE cache1
        \* lines 151-159
        failed   == given /\ UploadFailed(res2)
        saved    == given /\ ~UploadFailed(res2)
        ss2      == IF saved THEN Stored(res2, UPLOAD_NAME) ELSE ss1
        \* line 172: the dashboard, unless st.rerun() (line 159) ended the run
        shown    == ~saved /\ ~IsEmpty(df)
    IN  /\ session_state' = ss2
        /\ cache' = cache2
        /\ ui' = [ header    |-> ss0.hoje_data,                                       \* 114
                   messages  |-> (IF loaded THEN { "info: carregados automaticamente" } ELSE {})
                                 \cup (IF failed THEN { "warning: Falha ao processar" } ELSE {})
                                 \cup (IF saved THEN { "success: carregados com sucesso" } ELSE {})
                                 \cup (IF uploader /\ ~given
                                       THEN { "warning: Por favor, carregue" } ELSE {})
                                 \cup (IF ~empty0
                                       THEN { "success: carregados e persistentes" } ELSE {}),
                   errors    |-> res1.errors + res2.errors,
                   uploader  |-> uploader,
                   button    |-> ~empty0,
                   upload    |-> IF given THEN u ELSE NoFile,
                   rerun     |-> saved,
                   dashboard |-> shown,
                   rendered  |-> IF shown THEN df.rows ELSE << >> ]
        /\ last' = IF last = "clear" THEN "run_after_clear" ELSE "run"
        /\ UNCHANGED << today, disk, pipeVars, qVars, aggVars >>

\* The script runs: on a first visit, after a widget changed, or after
\* st.rerun().  The uploader holds a file only if the last run showed it.
RunScript ==
    \E u \in { NoFile } \cup UploadFiles :
        /\ u # NoFile => ui.uploader
        /\ PageRun(u)

\* lines 103-108: the button's on_click callback (the script then runs again)
clear_data ==
    /\ ui.button
    /\ session_state' = FreshSession(today)
    /\ ui' = [ BlankPage EXCEPT !.rerun = TRUE ]
    /\ last' = "clear"
    /\ UNCHANGED << today, disk, cache, pipeVars, qVars, aggVars >>

\* the calendar day changes
DayPasses ==
    /\ today < FirstDay + MaxDays
    /\ today' = today + 1
    /\ UNCHANGED << disk, cache, session_state, ui, last, pipeVars, qVars, aggVars >>

\* a new browser session: a new st.session_state, the same server and cache
NewSession ==
    /\ session_state.init
    /\ session_state' = NoSession
    /\ ui' = BlankPage
    /\ last' = "new"
    /\ UNCHANGED << today, disk, cache, pipeVars, qVars, aggVars >>

Init ==
    /\ today = FirstDay
    /\ disk \in { NoFile } \cup DiskFiles
    /\ cache = [ k \in CacheKeys |-> NoEntry ]
    /\ session_state = NoSession
    /\ ui = BlankPage
    /\ last = "new"
    /\ PipeAtRest /\ QAtRest /\ AggAtRest

Next == RunScript \/ clear_data \/ DayPasses \/ NewSession

Spec == Init /\ [][Next]_vars

(***************************************************************************)
(* Claims about the page script, checked under Spec.                       *)
(***************************************************************************)
AllFiles == DiskFiles \cup UploadFiles

\* the source is well formed and every one of its rows is rejected
WellFormedNoRows(id) ==
    /\ FileContent(id).readable
    /\ FileContent(id).ncols = NumColumns
    /\ \A i \in DOMAIN FileContent(id).rows : ~SurvivesCoercion(FileContent(id).rows[i])

\* C6: an ingestion of a well-formed source whose rows are all rejected is
\* a valid, empty result and no error: the upload path does not report it
\* as a processing failure, and the caller's test (DataFrame.empty) tells
\* it from a failed ingestion.
C6_EmptyIngestionIsNoFailure ==
    (last # "new" /\ ui.upload # NoFile /\ WellFormedNoRows(ui.upload)) =>
        /\ "warning: Falha ao processar" \notin ui.messages
        /\ \A bad \in AllFiles :
              FileContent(bad).ncols # NumColumns =>
                  IsEmpty(load_and_process_data(FileContent(bad), today).df)
                  # IsEmpty(load_and_process_data(FileContent(ui.upload), today).df)

\* df is the output of one call of load_and_process_data on one file
OneIngestion(df) ==
    \E id \in AllFiles, d \in Days : df = load_and_process_data(FileContent(id), d).df

\* the run that ends in the primed state handled an upload that failed
FailedUploadStep ==
    /\ last' \in { "run", "run_after_clear" }
    /\ ui'.upload # NoFile
    /\ IsEmpty(load_and_process_data(FileContent(ui'.upload), today).df)

\* C8: the dataset of the session is empty or the complete output of one
\* ingestion, never a merge of two; a failed upload leaves df_data,
\* hoje_data and uploaded_file_name as they were; and a dataset is stored
\* only when the session holds none.
C8_SessionHoldsOneIngestion ==
    /\ [](session_state.init =>
            IsEmpty(session_state.df_data) \/ OneIngestion(session_state.df_data))
    /\ [][FailedUploadStep => session_state' = session_state]_vars
    /\ [][(/\ session_state'.df_data # session_state.df_data
           /\ ~IsEmpty(session_state'.df_data)) => IsEmpty(session_state.df_data)]_vars

\* the session holds the uploaded exportB, after an upload that failed
C8_Witness ==
    /\ session_state.init
    /\ session_state.uploaded_file_name = UPLOAD_NAME
    /\ session_state.df_data = load_and_process_data(FileContent("exportB"), today).df
    /\ cache["malformed"].hit
    /\ cache["rejected"].hit

\* C9: the run after clear_data ends with an empty session dataset and
\* offers the uploader, whatever the environment, the default file on disk
\* with valid rows included.
C9_ClearAllowsNewUpload ==
    last = "run_after_clear" => IsEmpty(session_state.df_data) /\ ui.uploader

\* C10: in a run that renders the dashboard, the reference date of the
\* header is the date against which the days_in_stock of the rendered rows
\* were computed.
C10_HeaderIsReferenceDate ==
    ui.dashboard =>
        \A i \in DOMAIN ui.rendered :
            ui.rendered[i].Dias_Em_Estoque
                = DiasEmEstoque(ui.header, ui.rendered[i].Ultimo_Movimento)

====
